---- MODULE Spec2Model ----
(***************************************************************************)
(* Static file handler builder of iris (fs.go): the fluent builder         *)
(* fsHandler, its once-guarded Build(), the request path through the       *)
(* handler Build() composes, the listing-suppressing Open, StripPrefix     *)
(* and toWebPath.                                                          *)
(*                                                                         *)
(* Strings are sequences of one-character strings.  A handler value (a Go  *)
(* closure) is an index into `handlers`, the closures the composition has  *)
(* allocated; 0 is the nil HandlerFunc.                                    *)
(***************************************************************************)
EXTENDS Integers, Sequences, FiniteSets, TLC

\* ---------------------------------------------------------------- bounds
MaxExcept == 2       \* longest exception list a builder is given
MaxConfigCalls == 2  \* configuration calls made on one builder
MaxLen == 3          \* longest request path of the StripPrefix check
MaxPrefix == 2       \* longest prefix of the StripPrefix check
MaxOwn == 2          \* longest middleware list a context brings along
MaxWebLen == 3       \* longest system path of the toWebPath check

\* The goroutines that call Build(), and the requests in flight at a time.
Callers == {"c1", "c2"}
Reqs == {"q1"}
Ctxs == {"x1", "x2"}

\* ------------------------------------------------------------ characters
slash == "/"
backslash == "\\"
dot == "."

\* ---------------------------------------------------------------- inputs
Routes == {"r1", "r2"}
Dirs == {<<"s">>, <<slash, "s">>}
Cwd == <<slash, "w">>
PathArgs == {<<backslash, "x">>}
ReqPaths == {<<slash, "s", slash, "x">>, <<slash, "x">>}
ExceptArgs == {<<a>> : a \in Routes} \cup {<<a, b>> : a, b \in Routes}
StripAlphabet == {slash, "s"}
StrUpTo(A, n) == UNION {[1..k -> A] : k \in 0..n}

\* The results the wrapped http.Dir can give to Open: an error, a regular
\* file, or a directory with its entries.
DirEntries == {<<>>, <<"e1", "e2">>}
UnderlyingResults ==
    {[err |-> "notexist", kind |-> "none", entries |-> <<>>]}
    \cup {[err |-> "nil", kind |-> "file", entries |-> <<>>]}
    \cup {[err |-> "nil", kind |-> "dir", entries |-> es] : es \in DirEntries}
ReaddirCounts == {-1, 0, 1, 2}
\* The errors the wrapped http.Dir can give to a direct call of Open.
OpenErrors == {"notexist", "permission", "invalid"}
OpenResults ==
    UnderlyingResults
    \cup {[err |-> err, kind |-> "none", entries |-> <<>>] : err \in OpenErrors}

\* ------------------------------------------------------- string helpers
HasPrefix(s, p) == Len(s) >= Len(p) /\ SubSeq(s, 1, Len(p)) = p

TrimPrefix(s, p) == IF HasPrefix(s, p) THEN SubSeq(s, Len(p) + 1, Len(s)) ELSE s

\* strings.Replace(s, old, new, -1) for a non-empty old: non-overlapping
\* occurrences, left to right, one pass.
RECURSIVE Replace(_, _, _)
Replace(s, old, new) ==
    IF Len(s) < Len(old) THEN s
    ELSE IF SubSeq(s, 1, Len(old)) = old
         THEN new \o Replace(SubSeq(s, Len(old) + 1, Len(s)), old, new)
         ELSE <<Head(s)>> \o Replace(Tail(s), old, new)

toWebPath(systemPath) ==
    LET webpath1 == Replace(systemPath, <<backslash>>, <<slash>>)
        webpath2 == Replace(webpath1, <<slash, slash>>, <<slash>>)
    IN  Replace(webpath2, <<dot>>, <<>>)

\* abs: filepath.Abs of a clean path; a relative path is joined to the
\* working directory, and when the working directory cannot be read the
\* path is returned as given.
abs(path, wdErr) ==
    IF HasPrefix(path, <<slash>>) THEN path
    ELSE IF wdErr THEN path
    ELSE Cwd \o <<slash>> \o path

\* ----------------------------------------------------------- StripPrefix
\* A stripper that forwards whatever TrimPrefix returns, matched or not.
StripPrefixUnchecked(prefix, ctxPath) ==
    LET p == TrimPrefix(ctxPath, prefix)
    IN  [notFound |-> FALSE, hCalls |-> 1, hPath |-> p, ctxPath |-> p]

\* The handler StripPrefix(prefix, h) returns, applied to a request whose
\* URL path is ctxPath: whether NotFound was answered, how often h was
\* invoked, the path h saw and the request's path afterwards.
StripPrefix(prefix, ctxPath) ==
    IF prefix = <<>>
    THEN [notFound |-> FALSE, hCalls |-> 1, hPath |-> ctxPath, ctxPath |-> ctxPath]
    ELSE LET p == TrimPrefix(ctxPath, prefix)
         IN  IF Len(p) < Len(ctxPath)
             THEN [notFound |-> FALSE, hCalls |-> 1, hPath |-> p, ctxPath |-> p]
             ELSE [notFound |-> TRUE, hCalls |-> 0, hPath |-> <<>>, ctxPath |-> ctxPath]

\* ------------------------------------------------------------------ state
VARIABLES
    w,            \* the fsHandler struct
    exceptLog,    \* routes given to Except, in call and argument order
    calls,        \* configuration calls made so far
    once,         \* w.once: the done flag and the mutex holder
    caller,       \* each Build() caller: its position in Build()
    comp,         \* locals of the running composition closure
    handlers,     \* the handler closures allocated so far, each with what
                  \* it captured and the configuration it was composed from
    compositions, \* how many times the closure given to once.Do was entered
    returned,     \* every value a Build() call has returned
    atBuild,      \* the configuration when the first Build() call returned
    req,          \* each request in flight: its context and position
    pool,         \* gzip response writers acquired and not yet released
    sp,           \* the StripPrefix check: inputs and result
    wp,           \* the toWebPath check: input, result, result of the result
    mt,           \* the typeByExtension check: inputs and result
    op,           \* the last direct call of w.Open: inputs and result
    cx            \* each context running the chain handler: its ctx.Middleware

cfgVars == <<w, exceptLog, calls>>
buildVars == <<once, caller, comp, handlers, compositions, returned, atBuild>>
reqVars == <<req, pool>>
checkVars == <<sp, wp, mt>>
vars == <<cfgVars, buildVars, reqVars, checkVars, op, cx>>

NoComp == [strip |-> FALSE, prefix |-> <<>>, stripPath |-> FALSE, requestPath |-> <<>>]
NoHandle == [open |-> FALSE, noList |-> FALSE,
             under |-> [err |-> "nil", kind |-> "none", entries |-> <<>>]]
IdleReq == [pc |-> "idle", path |-> <<>>, allowsGzip |-> FALSE, hid |-> 0,
            mw |-> <<>>, pos |-> 0, ran |-> <<>>, writer |-> "none",
            headers |-> <<>>, acquired |-> 0, released |-> 0,
            outcome |-> "none", fsPath |-> <<>>, handle |-> NoHandle,
            listed |-> <<>>]
IdleSp == [pc |-> "off", prefix |-> <<>>, path |-> <<>>,
           res |-> [notFound |-> FALSE, hCalls |-> 0, hPath |-> <<>>, ctxPath |-> <<>>]]

IdleWp == [pc |-> "off", systemPath |-> <<>>, first |-> <<>>, second |-> <<>>]
IdleMt == [pc |-> "off", fullfilename |-> <<>>, sys |-> "", t |-> ""]
IdleOp == [called |-> FALSE, fsSet |-> FALSE, listing |-> FALSE,
           u |-> [err |-> "nil", kind |-> "none", entries |-> <<>>],
           res |-> [file |-> NoHandle, err |-> "nil"]]
IdleCx == [pc |-> "idle", hid |-> 0, own |-> <<>>, alias |-> FALSE,
           len |-> 0, copy |-> <<>>, pos |-> 0]

\* A constructor whose builder does not strip the request path.
NewStaticHandlerBuilderNoStrip(dir, wdErr) ==
    [directory |-> abs(dir, wdErr),
     requestPath |-> toWebPath(dir),
     stripPath |-> FALSE,
     gzip |-> FALSE,
     listDirectories |-> FALSE,
     filesystem |-> "nil",
     exceptions |-> <<>>,
     handler |-> 0]

NewStaticHandlerBuilder(dir, wdErr) ==
    [directory |-> abs(dir, wdErr),
     requestPath |-> toWebPath(dir),
     stripPath |-> TRUE,
     gzip |-> FALSE,
     listDirectories |-> FALSE,
     filesystem |-> "nil",
     exceptions |-> <<>>,
     handler |-> 0]

InitRest ==
    /\ exceptLog = <<>>
    /\ calls = 0
    /\ once = [done |-> 0, m |-> "free"]
    /\ caller = [c \in Callers |-> "idle"]
    /\ comp = NoComp
    /\ handlers = <<>>
    /\ compositions = 0
    /\ returned = {}
    /\ atBuild = [built |-> FALSE, gzip |-> FALSE, listDirectories |-> FALSE]
    /\ req = [r \in Reqs |-> IdleReq]
    /\ pool = 0
    /\ op = IdleOp
    /\ cx = [x \in Ctxs |-> IdleCx]

Init ==
    /\ \E dir \in Dirs, wdErr \in BOOLEAN : w = NewStaticHandlerBuilder(dir, wdErr)
    /\ InitRest
    /\ sp = IdleSp
    /\ wp = IdleWp
    /\ mt = IdleMt

\* --------------------------------------------------------------- mutators
\* Each mutator is one configuration call; the builder is returned.
Configure(wNew, logNew) ==
    /\ calls < MaxConfigCalls
    /\ calls' = calls + 1
    /\ w' = wNew
    /\ exceptLog' = logNew
    /\ UNCHANGED <<buildVars, reqVars, checkVars, op, cx>>

\* A Path that also moves the root directory.
PathAlsoDirectory(requestRoutePath) ==
    Configure([w EXCEPT !.requestPath = toWebPath(requestRoutePath),
                        !.directory = requestRoutePath], exceptLog)

Path(requestRoutePath) ==
    Configure([w EXCEPT !.requestPath = toWebPath(requestRoutePath)], exceptLog)

Gzip(enable) == Configure([w EXCEPT !.gzip = enable], exceptLog)

Listing(listDirectoriesOnOff) ==
    Configure([w EXCEPT !.listDirectories = listDirectoriesOnOff], exceptLog)

StripPath(yesNo) == Configure([w EXCEPT !.stripPath = yesNo], exceptLog)

\* An Except that puts the new routes in front of the earlier ones.
PrependRoutes(exceptions, r) == r \o exceptions

\* append(w.exceptions, r...)
AppendRoutes(exceptions, r) == exceptions \o r

Except(r) ==
    /\ Len(w.exceptions) + Len(r) <= MaxExcept
    /\ Configure([w EXCEPT !.exceptions = AppendRoutes(w.exceptions, r)], exceptLog \o r)

\* ------------------------------------------------------------------ Build
\* A gate whose fast path does not wait for the done flag.
OnceDoFastNoWait(done) == TRUE

\* sync.Once.Do, fast path: the call returns at once iff done is set.
OnceDoFast(done) == done = 1

\* A gate that does not re-check the done flag under the mutex.
OnceDoSlowRunNoRecheck(done) == TRUE

\* sync.Once.Do, slow path: with the mutex held, f runs iff done is unset.
OnceDoSlowRun(done) == done = 0

\* Build() is entered and once.Do loads the done flag.
BuildCall(c) ==
    /\ caller[c] = "idle"
    /\ caller' = [caller EXCEPT ![c] = IF OnceDoFast(once.done) THEN "ret" ELSE "lock"]
    /\ UNCHANGED <<cfgVars, once, comp, handlers, compositions, returned, atBuild,
                   reqVars, checkVars, op, cx>>

\* doSlow takes the mutex (blocking while another caller holds it) and
\* re-checks done; f is entered when it is unset.
OnceLock(c) ==
    /\ caller[c] = "lock"
    /\ once.m = "free"
    /\ once' = [once EXCEPT !.m = c]
    /\ IF OnceDoSlowRun(once.done)
       THEN /\ caller' = [caller EXCEPT ![c] = "f1"]
            /\ compositions' = compositions + 1
       ELSE /\ caller' = [caller EXCEPT ![c] = "unlock"]
            /\ UNCHANGED compositions
    /\ UNCHANGED <<cfgVars, comp, handlers, returned, atBuild, reqVars, checkVars, op, cx>>

\* A composition that wraps the file server whatever w.stripPath is.
ComposedStripAlways(wv) == TRUE

\* Whether the composition wraps the file server in http.StripPrefix.
ComposedStrip(wv) == wv.stripPath

\* w.filesystem = w.directory; fsHandler is the file server over w, wrapped
\* by http.StripPrefix(w.requestPath, .) when w.stripPath is set.
ComposeFsHandler(c) ==
    /\ caller[c] = "f1"
    /\ w' = [w EXCEPT !.filesystem = w.directory]
    /\ comp' = [strip |-> ComposedStrip(w),
                prefix |-> IF ComposedStrip(w) THEN w.requestPath ELSE <<>>,
                stripPath |-> w.stripPath, requestPath |-> w.requestPath]
    /\ caller' = [caller EXCEPT ![c] = "f2"]
    /\ UNCHANGED <<exceptLog, calls, once, handlers, compositions, returned, atBuild,
                   reqVars, checkVars, op, cx>>

\* The middleware slice of the composition: Prioritize(e) for each
\* exception, then the static handler h; no slice without exceptions.
ComposedMiddleware(exceptions) ==
    IF Len(exceptions) > 0
    THEN [i \in 1..(Len(exceptions) + 1) |->
            IF i <= Len(exceptions)
            THEN [kind |-> "exception", route |-> exceptions[i], owner |-> 0]
            ELSE [kind |-> "static", route |-> "", owner |-> 0]]
    ELSE <<>>

\* A slice made with room for two more entries than it holds.
MiddlewareCapSpare(exceptions) == Len(exceptions) + 3

\* make(Middleware, len(w.exceptions)+1): the capacity is the length.
MiddlewareCap(exceptions) == Len(exceptions) + 1

\* The array behind the middleware slice, unused slots included.
EmptySlot == [kind |-> "nil", route |-> "", owner |-> 0]
MiddlewareArray(exceptions) ==
    IF Len(exceptions) > 0
    THEN ComposedMiddleware(exceptions)
         \o [i \in 1..(MiddlewareCap(exceptions) - (Len(exceptions) + 1)) |-> EmptySlot]
    ELSE <<>>

\* The closure h is allocated, the chain is built, w.handler is assigned.
ComposeHandler(c) ==
    /\ caller[c] = "f2"
    /\ handlers' = Append(handlers,
                          [strip |-> comp.strip, prefix |-> comp.prefix,
                           middleware |-> ComposedMiddleware(w.exceptions),
                           backing |-> MiddlewareArray(w.exceptions),
                           stripPath |-> comp.stripPath,
                           requestPath |-> comp.requestPath,
                           registered |-> Len(exceptLog)])
    /\ w' = [w EXCEPT !.handler = Len(handlers) + 1]
    /\ comp' = NoComp
    /\ caller' = [caller EXCEPT ![c] = "store"]
    /\ UNCHANGED <<exceptLog, calls, once, compositions, returned, atBuild, reqVars, checkVars, op, cx>>

\* f has returned: the deferred store of done.
OnceStore(c) ==
    /\ caller[c] = "store"
    /\ once' = [once EXCEPT !.done = 1]
    /\ caller' = [caller EXCEPT ![c] = "unlock"]
    /\ UNCHANGED <<cfgVars, comp, handlers, compositions, returned, atBuild, reqVars, checkVars, op, cx>>

\* The deferred unlock of the mutex.
OnceUnlock(c) ==
    /\ caller[c] = "unlock"
    /\ once' = [once EXCEPT !.m = "free"]
    /\ caller' = [caller EXCEPT ![c] = "ret"]
    /\ UNCHANGED <<cfgVars, comp, handlers, compositions, returned, atBuild, reqVars, checkVars, op, cx>>

\* return w.handler
BuildReturn(c) ==
    /\ caller[c] = "ret"
    /\ caller' = [caller EXCEPT ![c] = "idle"]
    /\ returned' = returned \cup {w.handler}
    /\ atBuild' = IF atBuild.built THEN atBuild
                  ELSE [built |-> TRUE, gzip |-> w.gzip,
                        listDirectories |-> w.listDirectories]
    /\ UNCHANGED <<cfgVars, once, comp, handlers, compositions, reqVars, checkVars, op, cx>>

\* --------------------------------------------------------------- file system
\* Readdir of the wrapped http.Dir's file (os.File.Readdir): all entries for
\* count <= 0, at most count entries otherwise, io.EOF at the end.
UnderlyingReaddir(u, count) ==
    IF u.kind # "dir" THEN [infos |-> <<>>, err |-> "notdir"]
    ELSE IF count <= 0 THEN [infos |-> u.entries, err |-> "nil"]
    ELSE IF Len(u.entries) = 0 THEN [infos |-> <<>>, err |-> "EOF"]
    ELSE [infos |-> SubSeq(u.entries, 1,
                           IF count < Len(u.entries) THEN count ELSE Len(u.entries)),
          err |-> "nil"]

\* Stat of the wrapped http.Dir's file.
UnderlyingStat(u) == [isDir |-> u.kind = "dir", err |-> "nil"]

\* A wrapper whose Readdir is the embedded file's.
ReaddirPromoted(f, count) == UnderlyingReaddir(f.under, count)

\* noListFile.Readdir overrides the embedded http.File's Readdir.
Readdir(f, count) ==
    IF f.noList THEN [infos |-> <<>>, err |-> "nil"]
    ELSE UnderlyingReaddir(f.under, count)

\* Every other method of noListFile is promoted from the embedded http.File.
Stat(f) == UnderlyingStat(f.under)

\* An Open that wraps every file, whatever w.listDirectories is.
OpenAlwaysNoList(wv, u) ==
    IF wv.filesystem = "nil" THEN [file |-> NoHandle, err |-> "panic"]
    ELSE IF u.err # "nil" THEN [file |-> NoHandle, err |-> u.err]
    ELSE [file |-> [open |-> TRUE, noList |-> TRUE, under |-> u], err |-> "nil"]

\* An Open that wraps what the file system returned before it looks at
\* the error.
OpenWrapsFirst(wv, u) ==
    IF wv.filesystem = "nil" THEN [file |-> NoHandle, err |-> "panic"]
    ELSE IF ~wv.listDirectories
         THEN [file |-> [open |-> TRUE, noList |-> TRUE, under |-> u], err |-> u.err]
         ELSE IF u.err # "nil" THEN [file |-> NoHandle, err |-> u.err]
         ELSE [file |-> [open |-> TRUE, noList |-> FALSE, under |-> u], err |-> "nil"]

\* fsHandler.Open, u being what w.filesystem.Open(name) gives.
Open(wv, u) ==
    IF wv.filesystem = "nil" THEN [file |-> NoHandle, err |-> "panic"]
    ELSE IF u.err # "nil" THEN [file |-> NoHandle, err |-> u.err]
    ELSE IF ~wv.listDirectories
         THEN [file |-> [open |-> TRUE, noList |-> TRUE, under |-> u], err |-> "nil"]
         ELSE [file |-> [open |-> TRUE, noList |-> FALSE, under |-> u], err |-> "nil"]

\* ------------------------------------------------------------------ requests
\* The middleware a request's context holds when the router dispatches it.
OwnMiddleware(r) == <<[kind |-> "own", route |-> "", owner |-> r]>>

StaticEntry == [kind |-> "static", route |-> "", owner |-> 0]

\* The router invokes the handler a Build() call returned, on a fresh
\* context (a finished request's slot is taken over).  The chain
\* handler sets ctx.Middleware = append(middleware, ctx.Middleware...) and
\* calls ctx.Do(), which runs entry 0; without exceptions the handler is h.
ReqStart(r) ==
    /\ req[r].pc \in {"idle", "done"}
    /\ \E hid \in returned \ {0}, path \in ReqPaths, allowsGzip \in BOOLEAN :
         LET middleware == handlers[hid].middleware
         IN  req' = [req EXCEPT ![r] =
                 [IdleReq EXCEPT !.pc = IF middleware = <<>> THEN "static" ELSE "chain",
                                 !.path = path, !.allowsGzip = allowsGzip, !.hid = hid,
                                 !.mw = IF middleware = <<>> THEN OwnMiddleware(r)
                                        ELSE middleware \o OwnMiddleware(r)]]
    /\ UNCHANGED <<cfgVars, buildVars, pool, checkVars, op, cx>>

\* Prioritize(route): when the route matches the request it is executed and
\* the chain stops; otherwise ctx.Next() moves to the next entry.
ReqPrioritize(r) ==
    /\ req[r].pc = "chain"
    /\ req[r].mw[req[r].pos + 1].kind = "exception"
    /\ \E matches \in BOOLEAN :
         LET entry == req[r].mw[req[r].pos + 1]
             next == req[r].pos + 1
         IN  req' = [req EXCEPT ![r] =
                 IF matches
                 THEN [@ EXCEPT !.ran = Append(@, entry), !.outcome = "route", !.pc = "ret"]
                 ELSE IF next < Len(req[r].mw)
                      THEN [@ EXCEPT !.ran = Append(@, entry), !.pos = next,
                                     !.pc = IF req[r].mw[next + 1].kind = "static"
                                            THEN "static" ELSE "chain"]
                      ELSE [@ EXCEPT !.ran = Append(@, entry), !.pc = "ret"]]
    /\ UNCHANGED <<cfgVars, buildVars, pool, checkVars, op, cx>>

\* A condition that does not ask the client.
UseGzipAnyClient(wv, allowsGzip) == wv.gzip

\* h's condition for compressing: w.gzip && ctx.clientAllowsGzip()
UseGzip(wv, allowsGzip) == wv.gzip /\ allowsGzip

\* The headers h adds before it compresses.
GzipHeaders == <<"Vary: Accept-Encoding", "Content-Encoding: gzip">>

\* The closure h up to the call of fsHandler.ServeHTTP.
ReqStatic(r) ==
    /\ req[r].pc = "static"
    /\ IF UseGzip(w, req[r].allowsGzip)
       THEN /\ req' = [req EXCEPT ![r] =
                   [@ EXCEPT !.ran = Append(@, StaticEntry),
                             !.headers = GzipHeaders,
                             !.writer = "gzip", !.acquired = 1, !.pc = "serve"]]
            /\ pool' = pool + 1
       ELSE /\ req' = [req EXCEPT ![r] =
                   [@ EXCEPT !.ran = Append(@, StaticEntry),
                             !.writer = "direct", !.pc = "serve"]]
            /\ UNCHANGED pool
    /\ UNCHANGED <<cfgVars, buildVars, checkVars, op, cx>>

\* What the composed fsHandler does with the request path.
ServedPath(h, path) ==
    IF h.strip THEN StripPrefix(h.prefix, path)
    ELSE [notFound |-> FALSE, hCalls |-> 1, hPath |-> path, ctxPath |-> path]

\* fsHandler.ServeHTTP(writer, ctx.Request): the prefix stripper when the
\* composition wrapped one, then the file server, which opens the path
\* through w.Open and lists a directory with Readdir(-1).  The call returns
\* or panics.
ReqServe(r) ==
    /\ req[r].pc = "serve"
    /\ LET st == ServedPath(handlers[req[r].hid], req[r].path)
       IN  \/ /\ st.notFound
              /\ req' = [req EXCEPT ![r] = [@ EXCEPT !.outcome = "notfound", !.pc = "ret"]]
           \/ /\ ~st.notFound
              /\ \E u \in UnderlyingResults :
                   LET o == Open(w, u)
                   IN  req' = [req EXCEPT ![r] =
                           [@ EXCEPT !.fsPath = st.hPath, !.handle = o.file,
                                     !.listed = IF o.err = "nil" /\ Stat(o.file).isDir
                                                THEN Readdir(o.file, -1).infos ELSE <<>>,
                                     !.outcome = IF o.err # "nil" THEN "error"
                                                 ELSE IF Stat(o.file).isDir THEN "listing"
                                                 ELSE "file",
                                     !.pc = "ret"]]
           \/ /\ ~st.notFound
              /\ req' = [req EXCEPT ![r] = [@ EXCEPT !.fsPath = st.hPath,
                                                     !.outcome = "panic", !.pc = "ret"]]
    /\ UNCHANGED <<cfgVars, buildVars, pool, checkVars, op, cx>>

\* A release placed after the ServeHTTP call instead of being deferred.
ReleasesUnlessPanic(q) == IF q.writer = "gzip" /\ q.outcome # "panic" THEN 1 ELSE 0

\* The deferred releaseGzipResponseWriter runs iff h reached the defer
\* statement, that is iff it acquired a writer.
DeferredReleases(q) == IF q.writer = "gzip" THEN 1 ELSE 0

\* The handler returns or unwinds; the request is over.
ReqReturn(r) ==
    /\ req[r].pc = "ret"
    /\ req' = [req EXCEPT ![r] = [@ EXCEPT !.released = DeferredReleases(req[r]),
                                           !.pc = "done"]]
    /\ pool' = pool - DeferredReleases(req[r])
    /\ UNCHANGED <<cfgVars, buildVars, checkVars, op, cx>>

\* -------------------------------------------------------------- specification
Next ==
    \/ \E p \in PathArgs : Path(p)
    \/ \E b \in BOOLEAN : Gzip(b)
    \/ \E b \in BOOLEAN : Listing(b)
    \/ \E b \in BOOLEAN : StripPath(b)
    \/ \E a \in ExceptArgs : Except(a)
    \/ \E c \in Callers : BuildCall(c)
    \/ \E c \in Callers : OnceLock(c)
    \/ \E c \in Callers : ComposeFsHandler(c)
    \/ \E c \in Callers : ComposeHandler(c)
    \/ \E c \in Callers : OnceStore(c)
    \/ \E c \in Callers : OnceUnlock(c)
    \/ \E c \in Callers : BuildReturn(c)
    \/ \E r \in Reqs : ReqStart(r)
    \/ \E r \in Reqs : ReqPrioritize(r)
    \/ \E r \in Reqs : ReqStatic(r)
    \/ \E r \in Reqs : ReqServe(r)
    \/ \E r \in Reqs : ReqReturn(r)

Spec == Init /\ [][Next]_vars

\* StripPrefix on its own: every prefix and every request path of the
\* bounded alphabet, each served once by the returned handler.
StripInit ==
    /\ w = NewStaticHandlerBuilder(<<slash, "s">>, FALSE)
    /\ InitRest
    /\ \E prefix \in StrUpTo(StripAlphabet, MaxPrefix), path \in StrUpTo(StripAlphabet, MaxLen) :
         sp = [IdleSp EXCEPT !.pc = "ready", !.prefix = prefix, !.path = path]
    /\ wp = IdleWp
    /\ mt = IdleMt

StripServe ==
    /\ sp.pc = "ready"
    /\ sp' = [sp EXCEPT !.pc = "done", !.res = StripPrefix(sp.prefix, sp.path)]
    /\ UNCHANGED <<cfgVars, buildVars, reqVars, wp, mt, op, cx>>

StripNext == StripServe

SpecStrip == StripInit /\ [][StripNext]_vars

\* toWebPath on its own: every system path of the bounded alphabet is
\* converted, and the result is converted once more.
WebAlphabet == {slash, backslash, dot, "a"}

WebInit ==
    /\ w = NewStaticHandlerBuilder(<<slash, "s">>, FALSE)
    /\ InitRest
    /\ sp = IdleSp
    /\ mt = IdleMt
    /\ \E systemPath \in StrUpTo(WebAlphabet, MaxWebLen) :
         wp = [IdleWp EXCEPT !.pc = "ready", !.systemPath = systemPath]

ToWebPathOnce ==
    /\ wp.pc = "ready"
    /\ wp' = [wp EXCEPT !.pc = "once", !.first = toWebPath(wp.systemPath)]
    /\ UNCHANGED <<cfgVars, buildVars, reqVars, sp, mt, op, cx>>

ToWebPathAgain ==
    /\ wp.pc = "once"
    /\ wp' = [wp EXCEPT !.pc = "twice", !.second = toWebPath(wp.first)]
    /\ UNCHANGED <<cfgVars, buildVars, reqVars, sp, mt, op, cx>>

WebNext == ToWebPathOnce \/ ToWebPathAgain

SpecWeb == WebInit /\ [][WebNext]_vars

\* Open called directly on the builder (it is the file server's file
\* system), at any moment of its configuration and build.
OpenCall ==
    /\ \E u \in OpenResults :
         op' = [called |-> TRUE, fsSet |-> w.filesystem # "nil",
                listing |-> w.listDirectories, u |-> u, res |-> Open(w, u)]
    /\ UNCHANGED <<cfgVars, buildVars, reqVars, checkVars, cx>>

OpenNext ==
    \/ \E b \in BOOLEAN : Listing(b)
    \/ \E c \in Callers : BuildCall(c)
    \/ \E c \in Callers : OnceLock(c)
    \/ \E c \in Callers : ComposeFsHandler(c)
    \/ \E c \in Callers : ComposeHandler(c)
    \/ \E c \in Callers : OnceStore(c)
    \/ \E c \in Callers : OnceUnlock(c)
    \/ \E c \in Callers : BuildReturn(c)
    \/ OpenCall

SpecOpen == Init /\ [][OpenNext]_vars

\* ------------------------------------------------------- contexts on the chain
\* append(s, extra...) for the slice s of length len over the array
\* backing: with room left the entries are written into that array and the
\* result shares it, otherwise the result is a new array.
SliceAppend(backing, len, extra) ==
    IF len + Len(extra) <= Len(backing)
    THEN [shared |-> [i \in 1..Len(backing) |->
                         IF i > len /\ i <= len + Len(extra) THEN extra[i - len]
                         ELSE backing[i]],
          alias |-> TRUE, len |-> len + Len(extra), copy |-> <<>>]
    ELSE [shared |-> backing, alias |-> FALSE, len |-> len + Len(extra),
          copy |-> SubSeq(backing, 1, len) \o extra]

\* The middleware lists a context can hold when the router dispatches it.
OwnLists(x) ==
    {[i \in 1..k |-> [kind |-> "own", route |-> "", owner |-> x]] : k \in 0..MaxOwn}

\* ctx.Middleware as the context reads it.
Middleware(x) ==
    IF cx[x].alias THEN SubSeq(handlers[cx[x].hid].backing, 1, cx[x].len)
    ELSE cx[x].copy

\* w.handler on a context: ctx.Middleware = append(middleware,
\* ctx.Middleware...), then ctx.Do(); without exceptions the handler is h
\* and ctx.Middleware is left as it was.
ChainStart(x) ==
    /\ cx[x].pc \in {"idle", "done"}
    /\ \E hid \in returned \ {0}, own \in OwnLists(x) :
         LET h == handlers[hid]
             a == SliceAppend(h.backing, Len(h.middleware), own)
         IN  IF h.middleware = <<>>
             THEN /\ cx' = [cx EXCEPT ![x] =
                         [IdleCx EXCEPT !.pc = "static", !.hid = hid, !.own = own,
                                        !.len = Len(own), !.copy = own]]
                  /\ UNCHANGED handlers
             ELSE /\ cx' = [cx EXCEPT ![x] =
                         [IdleCx EXCEPT !.pc = "run", !.hid = hid, !.own = own,
                                        !.alias = a.alias, !.len = a.len,
                                        !.copy = a.copy]]
                  /\ handlers' = [handlers EXCEPT ![hid].backing = a.shared]
    /\ UNCHANGED <<cfgVars, once, caller, comp, compositions, returned, atBuild,
                   reqVars, checkVars, op>>

\* ctx.Do() and ctx.Next(): the entry at the context's position runs.  An
\* exception that does not match calls ctx.Next(); a matching one, the
\* static handler and any other handler end the request.
ChainRun(x) ==
    /\ cx[x].pc \in {"run", "static"}
    /\ \E matches \in BOOLEAN :
         cx' = [cx EXCEPT ![x] =
                   IF /\ cx[x].pc = "run"
                      /\ cx[x].pos < cx[x].len
                      /\ Middleware(x)[cx[x].pos + 1].kind = "exception"
                      /\ ~matches
                   THEN [@ EXCEPT !.pos = @ + 1]
                   ELSE [@ EXCEPT !.pc = "done"]]
    /\ UNCHANGED <<cfgVars, buildVars, reqVars, checkVars, op>>

\* One goroutine builds; the contexts are concurrent with it and with each
\* other.
ChainInit ==
    /\ w = NewStaticHandlerBuilder(<<slash, "s">>, FALSE)
    /\ InitRest
    /\ sp = IdleSp
    /\ wp = IdleWp
    /\ mt = IdleMt

ChainNext ==
    \/ \E a \in ExceptArgs : Except(a)
    \/ BuildCall("c1")
    \/ OnceLock("c1")
    \/ ComposeFsHandler("c1")
    \/ ComposeHandler("c1")
    \/ OnceStore("c1")
    \/ OnceUnlock("c1")
    \/ BuildReturn("c1")
    \/ \E x \in Ctxs : ChainStart(x)
    \/ \E x \in Ctxs : ChainRun(x)

SpecChain == ChainInit /\ [][ChainNext]_vars

\* ------------------------------------------------------------ typeByExtension
ExtJson == <<".", "j", "s", "o", "n">>
ExtJs == <<".", "j", "s">>
ExtZip == <<".", "z", "i", "p">>
Ext3gp == <<".", "3", "g", "p">>
Ext7z == <<".", "7", "z">>
ExtAce == <<".", "a", "c", "e">>
ExtAac == <<".", "a", "a", "c">>
ExtIco == <<".", "i", "c", "o">>
ExtPng == <<".", "p", "n", "g">>

\* filepath.Ext: the suffix from the last dot of the last path element,
\* empty when that element has no dot.
Ext(path) ==
    LET dots == {i \in 1..Len(path) :
                    /\ path[i] = dot
                    /\ \A j \in (i + 1)..Len(path) : path[j] # dot /\ path[j] # slash}
    IN  IF dots = {} THEN <<>>
        ELSE SubSeq(path, CHOOSE i \in dots : TRUE, Len(path))

\* A variant that corrects a plain-text answer for every extension.
typeByExtensionCorrectsAll(fullfilename, sys) ==
    LET ext == Ext(fullfilename)
    IN  IF sys = ""
        THEN IF ext = ExtJson THEN "application/json"
             ELSE IF ext = ExtJs THEN "application/javascript"
             ELSE IF ext = ExtZip THEN "application/zip"
             ELSE IF ext = Ext3gp THEN "video/3gpp"
             ELSE IF ext = Ext7z THEN "application/x-7z-compressed"
             ELSE IF ext = ExtAce THEN "application/x-ace-compressed"
             ELSE IF ext = ExtAac THEN "audio/x-aac"
             ELSE IF ext = ExtIco THEN "image/x-icon"
             ELSE IF ext = ExtPng THEN "image/png"
             ELSE "application/octet-stream"
        ELSE IF sys = "text/plain" \/ sys = "text/plain; charset=utf-8"
        THEN "application/javascript"
        ELSE sys

\* sys is the answer of mime.TypeByExtension(ext), the system's table.
typeByExtension(fullfilename, sys) ==
    LET ext == Ext(fullfilename)
    IN  IF sys = ""
        THEN IF ext = ExtJson THEN "application/json"
             ELSE IF ext = ExtJs THEN "application/javascript"
             ELSE IF ext = ExtZip THEN "application/zip"
             ELSE IF ext = Ext3gp THEN "video/3gpp"
             ELSE IF ext = Ext7z THEN "application/x-7z-compressed"
             ELSE IF ext = ExtAce THEN "application/x-ace-compressed"
             ELSE IF ext = ExtAac THEN "audio/x-aac"
             ELSE IF ext = ExtIco THEN "image/x-icon"
             ELSE IF ext = ExtPng THEN "image/png"
             ELSE "application/octet-stream"
        ELSE IF sys = "text/plain" \/ sys = "text/plain; charset=utf-8"
        THEN IF ext = ExtJs THEN "application/javascript" ELSE sys
        ELSE sys

\* File names given to typeByExtension, and what the system's table may
\* answer for an extension: nothing, plain text in both spellings, plain
\* text with another parameter, or another type.
FileNames ==
    {<<"a", ".", "j", "s">>,
     <<".", "j", "s">>,
     <<"a", ".", "m", "i", "n", ".", "j", "s">>,
     <<"a", ".", "j", "s", "/", "b">>,
     <<"a", ".", "j", "s", "o", "n">>,
     <<"a", ".", "p", "n", "g">>,
     <<"a", ".", "z", "i", "p">>,
     <<"a", ".", "3", "g", "p">>,
     <<"a", ".", "7", "z">>,
     <<"a", ".", "a", "c", "e">>,
     <<"a", ".", "a", "a", "c">>,
     <<"a", ".", "i", "c", "o">>,
     <<"a", ".", "t", "x", "t">>,
     <<"a">>,
     <<>>,
     <<"a", ".">>,
     <<"a", ".", "J", "S">>}
SystemTypes == {"", "text/plain", "text/plain; charset=utf-8",
                "text/plain; charset=iso-8859-1",
                "text/javascript; charset=utf-8", "application/octet-stream"}

MimeInit ==
    /\ w = NewStaticHandlerBuilder(<<slash, "s">>, FALSE)
    /\ InitRest
    /\ sp = IdleSp
    /\ wp = IdleWp
    /\ \E fullfilename \in FileNames, sys \in SystemTypes :
         mt = [IdleMt EXCEPT !.pc = "ready", !.fullfilename = fullfilename,
                             !.sys = sys]

TypeByExtensionCall ==
    /\ mt.pc = "ready"
    /\ mt' = [mt EXCEPT !.pc = "done", !.t = typeByExtension(mt.fullfilename, mt.sys)]
    /\ UNCHANGED <<cfgVars, buildVars, reqVars, sp, wp, op, cx>>

MimeNext == TypeByExtensionCall

SpecMime == MimeInit /\ [][MimeNext]_vars

\* ==================================================================== claims

\* C1: over any number of sequential or concurrent Build() calls on one
\* builder, the composition closure is entered at most once (exactly once
\* as soon as a call has returned), one handler closure is ever allocated,
\* and every call returns that same handler reference.
C1_BuildOnce ==
    /\ compositions <= 1
    /\ Len(handlers) <= 1
    /\ Cardinality(returned) <= 1
    /\ returned # {} => compositions = 1 /\ Len(handlers) = 1

\* Two calls are about to return after another call has already returned.
C1_Witness ==
    /\ returned # {}
    /\ \A c \in Callers : caller[c] = "ret"

\* C2: a Build() call returns only after the composition has finished:
\* every returned value is the non-nil, allocated handler that w.handler
\* holds, and from the first return on the file system is set and no
\* composition is running.
C2_FullyConstructed ==
    returned # {} =>
        /\ 0 \notin returned
        /\ \A h \in returned : h \in 1..Len(handlers) /\ w.handler = h
        /\ w.filesystem # "nil"
        /\ once.done = 1
        /\ \A c \in Callers : caller[c] \notin {"f1", "f2", "store"}

\* A call has returned while a concurrent first-time call, which found the
\* done flag unset, is still waiting for the mutex.
C2_Witness ==
    /\ returned # {}
    /\ \E c \in Callers : caller[c] = "lock"

\* C3: once the first Build() has returned, later Path, Gzip, StripPath and
\* Except calls change nothing for the requests that follow: the handler is
\* not composed again, and a request is compressed exactly when the
\* configuration at the time Build() returned enabled gzip and the client
\* allows it.
C3_FrozenAfterBuild ==
    /\ compositions <= 1
    /\ \A r \in Reqs :
         req[r].writer # "none" =>
             ((req[r].writer = "gzip") <=> (atBuild.gzip /\ req[r].allowsGzip))

\* C4: the chain a composition builds is the exceptions registered before
\* it, in the order of the Except calls and of their arguments, followed by
\* the static handler as last element, and no chain when none was
\* registered; a request evaluates the entries in that order, so the static
\* handler runs only after every exception, and without exceptions the
\* handler is the static handler alone.
StaticHasRun(q) == q.writer # "none"

IsPrefixOf(a, b) == Len(a) <= Len(b) /\ SubSeq(b, 1, Len(a)) = a

C4_ExceptionsBeforeStatic ==
    /\ \A i \in 1..Len(handlers) :
         LET h == handlers[i]
             m == h.middleware
         IN  IF h.registered = 0 THEN m = <<>>
             ELSE /\ Len(m) = h.registered + 1
                  /\ m[Len(m)].kind = "static"
                  /\ \A k \in 1..h.registered :
                       m[k].kind = "exception" /\ m[k].route = exceptLog[k]
    /\ \A r \in Reqs :
         req[r].pc # "idle" =>
             LET q == req[r]
                 m == handlers[q.hid].middleware
                 order == IF m = <<>> THEN <<StaticEntry>> ELSE m
             IN  /\ IsPrefixOf(q.ran, order)
                 /\ StaticHasRun(q) => q.ran = order
                 /\ m = <<>> => q.mw = OwnMiddleware(r)

\* The static handler is serving a request after two different exceptions
\* were evaluated before it.
C4_Witness ==
    \E r \in Reqs :
        /\ req[r].pc = "serve"
        /\ Len(req[r].ran) = 3
        /\ req[r].ran[1].route # req[r].ran[2].route
        /\ req[r].ran[3].kind = "static"

\* C5: StripPrefix(prefix, h) serving a request: with the empty prefix h
\* is invoked once with the path as it is; with a non-empty prefix that the
\* path begins with, h is invoked once with the path less one leading
\* occurrence of the prefix; otherwise not-found is answered, h is not
\* invoked and the request path stays as it was.
BeginsWith(path, prefix) ==
    \E k \in 0..Len(path) : path = prefix \o SubSeq(path, k + 1, Len(path))

C5_StripPrefix ==
    sp.pc = "done" =>
        /\ sp.prefix = <<>> =>
             /\ ~sp.res.notFound
             /\ sp.res.hCalls = 1
             /\ sp.res.hPath = sp.path
        /\ (sp.prefix # <<>> /\ BeginsWith(sp.path, sp.prefix)) =>
             /\ ~sp.res.notFound
             /\ sp.res.hCalls = 1
             /\ sp.prefix \o sp.res.hPath = sp.path
        /\ (sp.prefix # <<>> /\ ~BeginsWith(sp.path, sp.prefix)) =>
             /\ sp.res.notFound
             /\ sp.res.hCalls = 0
             /\ sp.res.ctxPath = sp.path

\* A path that begins with the prefix twice was served: one occurrence was
\* removed and the path h saw still begins with the prefix.
C5_Witness ==
    /\ sp.pc = "done"
    /\ sp.prefix # <<>>
    /\ sp.res.hCalls = 1
    /\ BeginsWith(sp.res.hPath, sp.prefix)

\* C6: the built handler strips the configured request path exactly when
\* stripPath was set as the composition read it: it then answers not-found
\* for a path without the prefix and passes the stripped path on; when
\* stripPath was unset the file server gets every path unmodified and no
\* request is answered not-found for its prefix.
Served(q) == q.pc \in {"ret", "done"} /\ q.outcome \notin {"none", "route"}

C6_StripIffConfigured ==
    \A r \in Reqs :
        Served(req[r]) =>
            LET q == req[r]
                h == handlers[q.hid]
                st == StripPrefix(h.requestPath, q.path)
            IN  IF h.stripPath
                THEN /\ (q.outcome = "notfound") <=> st.notFound
                     /\ ~st.notFound => q.fsPath = st.hPath
                ELSE /\ q.outcome # "notfound"
                     /\ q.fsPath = q.path

\* With stripPath unset at composition, a path that does not begin with the
\* request path reached the file server unmodified.
C6_Witness ==
    \E r \in Reqs :
        /\ req[r].pc = "done"
        /\ req[r].outcome \in {"file", "listing"}
        /\ ~handlers[req[r].hid].stripPath
        /\ StripPrefix(handlers[req[r].hid].requestPath, req[r].path).notFound
        /\ req[r].fsPath = req[r].path

\* C7: when the static handler takes a request, it adds the headers Vary:
\* Accept-Encoding and Content-Encoding: gzip, acquires a compressing writer
\* and writes through it exactly when gzip is enabled and the client allows
\* gzip; otherwise it adds no header, acquires nothing and writes to the
\* original response writer; serving and returning add no header and do
\* not change the writer.
C7_GzipStep(r) ==
    /\ (req[r].pc = "static" /\ req'[r].pc = "serve") =>
         IF w.gzip /\ req[r].allowsGzip
         THEN /\ req'[r].headers = GzipHeaders
              /\ req'[r].writer = "gzip"
              /\ req'[r].acquired = 1
              /\ pool' = pool + 1
         ELSE /\ req'[r].headers = <<>>
              /\ req'[r].writer = "direct"
              /\ req'[r].acquired = 0
              /\ pool' = pool
    /\ (req[r].pc \in {"serve", "ret"} /\ req'[r].pc \in {"ret", "done"}) =>
         /\ req'[r].headers = req[r].headers
         /\ req'[r].writer = req[r].writer

C7_GzipHeadersAndWriter == [][\A r \in Reqs : C7_GzipStep(r)]_vars

\* A request of a client that allows gzip is being served compressed, and
\* gzip is enabled.
C7_Witness ==
    \E r \in Reqs :
        /\ req[r].pc = "serve"
        /\ req[r].allowsGzip
        /\ w.gzip
        /\ req[r].writer = "gzip"
        /\ req[r].headers = GzipHeaders

\* C8: the writers out of the pool are exactly those of the requests whose
\* static handler has acquired one and has not returned yet; a finished
\* request has released once if it acquired and not at all otherwise,
\* whether it returned or panicked; when no request is in flight every
\* acquired writer has been released.
Holding(r) == req[r].acquired = 1 /\ req[r].pc \in {"serve", "ret"}

C8_ReleasedExactlyOnce ==
    /\ pool = Cardinality({r \in Reqs : Holding(r)})
    /\ \A r \in Reqs :
         /\ req[r].pc = "done" => req[r].released = req[r].acquired
         /\ req[r].pc # "done" => req[r].released = 0
    /\ (\A r \in Reqs : req[r].pc \in {"idle", "done"}) => pool = 0

\* A request that acquired a writer and panicked while serving is over, and
\* its writer is back in the pool.
C8_Witness ==
    \E r \in Reqs :
        /\ req[r].pc = "done"
        /\ req[r].outcome = "panic"
        /\ req[r].acquired = 1
        /\ req[r].released = 1
        /\ pool = 0

\* C9: a file that Open returns while listDirectories is unset gives an
\* empty Readdir result and no error for every count, whatever the
\* directory holds, and its other operations are the underlying file's; a
\* file that Open returns while listDirectories is set is the underlying
\* file, unwrapped.
C9_OpenStep(r) ==
    (req[r].pc = "serve" /\ req'[r].handle.open) =>
        LET f == req'[r].handle
        IN  /\ Stat(f) = UnderlyingStat(f.under)
            /\ IF ~w.listDirectories
               THEN \A n \in ReaddirCounts : Readdir(f, n) = [infos |-> <<>>, err |-> "nil"]
               ELSE /\ ~f.noList
                    /\ \A n \in ReaddirCounts : Readdir(f, n) = UnderlyingReaddir(f.under, n)

C9_NoListReaddirEmpty == [][\A r \in Reqs : C9_OpenStep(r)]_vars

\* A directory with entries was opened with listing suppressed and the
\* file server listed nothing.
C9_Witness ==
    \E r \in Reqs :
        /\ req[r].handle.open
        /\ req[r].handle.noList
        /\ req[r].outcome = "listing"
        /\ Len(req[r].handle.under.entries) = 2
        /\ req[r].listed = <<>>

\* C10: each Open wraps by the value listDirectories has at that moment,
\* whatever it was when Build() returned, and a Listing call leaves the
\* files that are already open as they were wrapped.
C10_OpenStep(r) ==
    /\ (req[r].pc = "serve" /\ req'[r].handle.open) =>
         req'[r].handle.noList = ~w.listDirectories
    /\ (req[r].handle.open /\ req'[r].pc \in {"ret", "done"}) =>
         req'[r].handle = req[r].handle

C10_ListingReadAtOpen == [][\A r \in Reqs : C10_OpenStep(r)]_vars

\* A file was opened after a Listing call made after Build(), wrapped
\* otherwise than the flag at Build() asks for, and a second Listing call
\* made after the open has left it so.
C10_Witness ==
    \E r \in Reqs :
        /\ atBuild.built
        /\ req[r].handle.open
        /\ req[r].handle.noList = atBuild.listDirectories
        /\ req[r].handle.noList = w.listDirectories

\* --------------------------------------------------------------------- C11
Contains(str, ch) == \E i \in 1..Len(str) : str[i] = ch

\* C11: for every system path p, toWebPath(toWebPath(p)) = toWebPath(p),
\* and toWebPath(p) contains no backslash and no dot.
C11_Idempotent ==
    wp.pc = "twice" =>
        /\ wp.second = wp.first
        /\ ~Contains(wp.first, backslash)
        /\ ~Contains(wp.first, dot)

\* --------------------------------------------------------------------- C17
HasDoubledSeparator(str) ==
    \E i \in 1..(Len(str) - 1) : str[i] = slash /\ str[i + 1] = slash

\* C17: for every input path, the result of toWebPath contains no two
\* adjacent separators, whether they were in the input, came from
\* backslashes or arose when dots were removed.
C17_NoDoubledSeparator ==
    wp.pc = "once" => ~HasDoubledSeparator(wp.first)

\* --------------------------------------------------------------------- C12
PlainTextTypes == {"text/plain", "text/plain; charset=utf-8"}

\* C12: for every file name whose extension is .js and for every answer
\* of the system's table, typeByExtension returns application/javascript
\* and never the plain-text type.
C12_JsIsScript ==
    (mt.pc = "done" /\ Ext(mt.fullfilename) = ExtJs) =>
        /\ mt.t \notin PlainTextTypes
        /\ mt.t = "application/javascript"

\* --------------------------------------------------------------------- C13
FixedTable ==
    (ExtJson :> "application/json") @@ (ExtJs :> "application/javascript") @@
    (ExtZip :> "application/zip") @@ (Ext3gp :> "video/3gpp") @@
    (Ext7z :> "application/x-7z-compressed") @@
    (ExtAce :> "application/x-ace-compressed") @@ (ExtAac :> "audio/x-aac") @@
    (ExtIco :> "image/x-icon") @@ (ExtPng :> "image/png")

C14_OpenErrorUnchanged ==
    op.called =>
        /\ (op.fsSet /\ op.u.err # "nil")
            => (op.res.err = op.u.err /\ op.res.file = NoHandle)
        /\ op.res.err # "nil" => ~op.res.file.open

C14_Witness ==
    /\ op.called
    /\ op.fsSet
    /\ op.listing
    /\ op.u.err = "permission"
    /\ op.res = [file |-> NoHandle, err |-> "permission"]

\* --------------------------------------------------------------------- C15
ConfigFields == {"requestPath", "gzip", "listDirectories", "stripPath", "exceptions"}

C15_Step ==
    LET changed == {f \in DOMAIN w : w'[f] # w[f]}
    IN  /\ w'.directory = w.directory
        /\ calls' # calls =>
              /\ Cardinality(changed) <= 1
              /\ changed \subseteq ConfigFields
              /\ IsPrefixOf(w.exceptions, w'.exceptions)
              /\ once' = once
        /\ calls' = calls => changed \subseteq {"filesystem", "handler"}

C16_Defaults ==
    calls = 0 =>
        /\ w.stripPath /\ ~w.gzip /\ ~w.listDirectories /\ w.exceptions = <<>>
        /\ \E d \in Dirs, wdErr \in BOOLEAN :
              w.directory = abs(d, wdErr) /\ w.requestPath = toWebPath(d)
        /\ \A i \in 1..Len(handlers) :
              /\ handlers[i].middleware = <<>>
              /\ handlers[i].strip
              /\ handlers[i].prefix = w.requestPath
        /\ \A r \in Reqs :
              Served(req[r]) =>
                  LET q == req[r]
                      st == StripPrefix(w.requestPath, q.path)
                  IN  /\ q.ran = <<StaticEntry>>
                      /\ (q.outcome = "notfound") <=> st.notFound
                      /\ ~st.notFound => q.fsPath = st.hPath
                      /\ q.writer = "direct" /\ q.headers = <<>> /\ q.acquired = 0
                      /\ q.handle.open => (q.handle.noList /\ q.listed = <<>>)

\* A gzip-capable client asked the default handler for a directory that
\* has entries: the prefix was stripped, nothing was listed or compressed.
C16_Witness ==
    /\ calls = 0
    /\ \E r \in Reqs :
          /\ req[r].pc = "done"
          /\ req[r].allowsGzip
          /\ req[r].outcome = "listing"
          /\ req[r].handle.under.entries # <<>>
          /\ req[r].listed = <<>>
          /\ req[r].fsPath = <<slash, "x">>
          /\ req[r].writer = "direct"

\* --------------------------------------------------------------------- C18
SameEntry(a, b) ==
    /\ a.kind = b.kind
    /\ a.route = b.route
    /\ a.kind = "own" => a.owner = b.owner

SameEntries(s, t) ==
    /\ Len(s) = Len(t)
    /\ \A i \in 1..Len(s) : SameEntry(s[i], t[i])

RegisteredChain(h) == ComposedMiddleware(SubSeq(exceptLog, 1, h.registered))

\* C18: handling requests never modifies the chain built by Build(): the
\* shared slice is always the exceptions registered at composition, in
\* insertion order, then the static handler; and the list of every context
\* in flight is that chain followed by the context's own earlier entries,
\* none of another context.
C18_ChainNotShared ==
    /\ \A i \in 1..Len(handlers) :
          SameEntries(SubSeq(handlers[i].backing, 1, Len(handlers[i].middleware)),
                      RegisteredChain(handlers[i]))
    /\ \A x \in Ctxs :
          cx[x].pc \in {"run", "static", "done"} =>
              SameEntries(Middleware(x),
                          RegisteredChain(handlers[cx[x].hid]) \o cx[x].own)

\* Two contexts are on the chain of two exceptions at once: one brought
\* no entry and reads the shared slice, at the static handler's place; the
\* other brought MaxOwn entries.
C18_Witness ==
    /\ cx["x1"].pc = "run" /\ cx["x2"].pc = "run"
    /\ cx["x1"].hid = cx["x2"].hid
    /\ Len(handlers[cx["x1"].hid].middleware) = 3
    /\ cx["x1"].own = <<>> /\ cx["x1"].alias /\ cx["x1"].pos = 2
    /\ Len(cx["x2"].own) = MaxOwn /\ ~cx["x2"].alias

====
